---- MODULE Spec2Model ----
(***************************************************************************)
(* YSC1 stream cipher core: the 16-word state, the key/nonce schedule, the *)
(* Lai-Massey permutation round, the scalar and the portable-SIMD keystream*)
(* backends, seeking and backend selection.                                *)
(*                                                                         *)
(* A u64 is a tuple of four 16-bit limbs, least significant first, so that *)
(* wrapping addition, rotation and XOR keep their 64-bit width.            *)
(***************************************************************************)
EXTENDS Integers, Sequences, FiniteSets

\* ------------------------------------------------------------- u64 words
LimbMod == 2^16

Pow2(n) == 2^n

\* The element of a singleton set.  { e(v) : v \in {x} } binds v to the value
\* of x, so that x is computed once however often e reads it.
The(S) == CHOOSE r \in S : TRUE

W0 == <<0, 0, 0, 0>>
WOne == <<1, 0, 0, 0>>
WMax == <<LimbMod - 1, LimbMod - 1, LimbMod - 1, LimbMod - 1>>
\* a small natural as a u64
U64(n) == <<n % LimbMod, (n \div LimbMod) % LimbMod, 0, 0>>

\* bits k.. of a ^ b, for naturals a, b < 2^16
RECURSIVE XorFrom(_, _, _)
XorFrom(a, b, k) ==
    IF k = 16 THEN 0
    ELSE ((((a \div Pow2(k)) + (b \div Pow2(k))) % 2) * Pow2(k)) + XorFrom(a, b, k + 1)
XorNat(a, b) == XorFrom(a, b, 0)

\* u64 ^ u64
Xor(x, y) ==
    The({ <<XorNat(a[1], b[1]), XorNat(a[2], b[2]),
            XorNat(a[3], b[3]), XorNat(a[4], b[4])>> : a \in {x}, b \in {y} })

\* u64::wrapping_add
wrapping_add(x, y) ==
    The({ LET s1 == a[1] + b[1]
              s2 == a[2] + b[2] + (s1 \div LimbMod)
              s3 == a[3] + b[3] + (s2 \div LimbMod)
              s4 == a[4] + b[4] + (s3 \div LimbMod)
          IN  <<s1 % LimbMod, s2 % LimbMod, s3 % LimbMod, s4 % LimbMod>>
        : a \in {x}, b \in {y} })

\* u64::rotate_left(r), 0 <= r < 64
rotate_left(x, r) ==
    The({ <<((a[((0 - q) % 4) + 1] % down) * up) + (a[((3 - q) % 4) + 1] \div down),
            ((a[((1 - q) % 4) + 1] % down) * up) + (a[((0 - q) % 4) + 1] \div down),
            ((a[((2 - q) % 4) + 1] % down) * up) + (a[((1 - q) % 4) + 1] \div down),
            ((a[((3 - q) % 4) + 1] % down) * up) + (a[((2 - q) % 4) + 1] \div down)>>
        : a \in {x}, q \in {r \div 16}, up \in {Pow2(r % 16)}, down \in {Pow2(16 - (r % 16))} })

\* u64::to_le_bytes
to_le_bytes(x) ==
    The({ <<a[1] % 256, a[1] \div 256, a[2] % 256, a[2] \div 256,
            a[3] % 256, a[3] \div 256, a[4] % 256, a[4] \div 256>> : a \in {x} })

\* u64::from_le_bytes of an 8-byte chunk
from_le_bytes(bytes) ==
    The({ <<b[1] + 256 * b[2], b[3] + 256 * b[4], b[5] + 256 * b[6], b[7] + 256 * b[8]>>
        : b \in {bytes} })

\* ------------------------------------------------------------- constants
STATE_WORDS == 16
KEYSTREAM_WORDS == 8
R1 == 11
R2 == 27
R3 == 43
\* diagonal permutation table (0-based indices, as in the source)
P == <<0, 5, 10, 15, 4, 9, 14, 3, 8, 13, 2, 7, 12, 1, 6, 11>>

\* ------------------------------------------------------- permutation round
f_function(x) ==
    The({ The({ wrapping_add(z, rotate_left(z, R3))
        : z \in {Xor(y, rotate_left(y, R2))} })
        : y \in {wrapping_add(x, rotate_left(x, R1))} })

\* the Lai-Massey mix of one quadruple <<x0, x1, x2, x3>>: the four values
\* lm_quad_round stores at i0, i1, i2, i3
lm_quad_mix(quad) ==
    The({ The({ The({ <<Xor(y[1], y[3]), Xor(y[2], y[4]), y[1], y[2]>>
        : y \in {<<wrapping_add(x[1], t[1]), wrapping_add(x[2], t[2]),
                   wrapping_add(x[3], t[1]), wrapping_add(x[4], t[2])>>} })
        : t \in {<<f_function(Xor(x[1], x[3])), f_function(Xor(x[2], x[4]))>>} })
        : x \in {quad} })

\* state is a tuple of 16 words; index i of the source is i + 1 here.
\* idx = <<i0, i1, i2, i3>>
quad_read(state, idx) ==
    The({ <<s[idx[1] + 1], s[idx[2] + 1], s[idx[3] + 1], s[idx[4] + 1]>> : s \in {state} })
quad_write(state, idx, out) ==
    The({ [state EXCEPT ![idx[1] + 1] = y[1], ![idx[2] + 1] = y[2],
                        ![idx[3] + 1] = y[3], ![idx[4] + 1] = y[4]] : y \in {out} })
lm_quad_round(state, idx) ==
    The({ quad_write(s, idx, lm_quad_mix(quad_read(s, idx))) : s \in {state} })

\* the index quadruples of the four lm_quad_round calls, in call order
quad_indices_overlap ==
    << <<0, 1, 2, 3>>, <<3, 4, 5, 6>>, <<8, 9, 10, 11>>, <<12, 13, 14, 15>> >>
quad_indices ==
    << <<0, 1, 2, 3>>, <<4, 5, 6, 7>>, <<8, 9, 10, 11>>, <<12, 13, 14, 15>> >>

\* temp_state[i] = state[P[i]] for all i, read from the state before any write
diagonal(state) ==
    The({ <<s[P[1] + 1], s[P[2] + 1], s[P[3] + 1], s[P[4] + 1],
            s[P[5] + 1], s[P[6] + 1], s[P[7] + 1], s[P[8] + 1],
            s[P[9] + 1], s[P[10] + 1], s[P[11] + 1], s[P[12] + 1],
            s[P[13] + 1], s[P[14] + 1], s[P[15] + 1], s[P[16] + 1]>> : s \in {state} })

permutation_round(state) ==
    diagonal(lm_quad_round(lm_quad_round(lm_quad_round(lm_quad_round(state,
        quad_indices[1]), quad_indices[2]), quad_indices[3]), quad_indices[4]))

\* n applications of the permutation round (the `for _ in 0..n` loops)
RECURSIVE rounds(_, _)
rounds(state, n) ==
    IF n = 0 THEN state
    ELSE The({ rounds(next, n - 1) : next \in {permutation_round(state)} })

\* ------------------------------------------------------------- variants
Variants == {"512", "1024"}
KEY_SIZE(v) == IF v = "512" THEN 64 ELSE 128
NONCE_SIZE(v) == 64
INIT_ROUNDS(v) == IF v = "512" THEN 16 ELSE 20
KEYSTREAM_ROUNDS(v) == 1
\* the word counts KeyIvInit::new reads from the variant
KEY_WORDS(v) == KEY_SIZE(v) \div 8
NONCE_WORDS(v) == NONCE_SIZE(v) \div 8

\* ------------------------------------------------------------- byte blocks
Fill(b, n) == [i \in 1..n |-> b]
BLOCK_SIZE == 64
ZeroBlock == Fill(0, BLOCK_SIZE)

\* the j-th 8-byte chunk of chunks_exact(8), decoded (j from 1)
chunk_word(bytes, j) == from_le_bytes(SubSeq(bytes, 8 * j - 7, 8 * j))

\* `*b ^= ks` on one byte
XorByte(a, b) == XorNat(a, b)

\* zip of two byte strings under XOR, as long as the shorter (the first)
XorBytes(data, ks) ==
    The({ [i \in 1..Len(d) |-> XorByte(d[i], k[i])] : d \in {data}, k \in {ks} })

\* words [0, KEYSTREAM_WORDS) of a state as 64 little-endian bytes
keystream_bytes(final_state) ==
    The({ to_le_bytes(s[1]) \o to_le_bytes(s[2]) \o to_le_bytes(s[3]) \o
          to_le_bytes(s[4]) \o to_le_bytes(s[5]) \o to_le_bytes(s[6]) \o
          to_le_bytes(s[7]) \o to_le_bytes(s[KEYSTREAM_WORDS]) : s \in {final_state} })

\* ------------------------------------------------------- key/nonce schedule
\* KeyIvInit::new: the state after loading, zeroing word 12 and INIT_ROUNDS rounds
\* a schedule that loads key and nonce and leaves word 12 as loaded
new_state_keeps_word12(v, key_bytes, iv_bytes) ==
    The({ The({ The({ rounds(nonced, INIT_ROUNDS(v))
        : nonced \in {
            IF KEY_WORDS(v) + NONCE_WORDS(v) <= STATE_WORDS
            THEN [i \in 1..STATE_WORDS |->
                    IF i > KEY_WORDS(v) /\ i <= KEY_WORDS(v) + (Len(iv) \div 8)
                    THEN chunk_word(iv, i - KEY_WORDS(v)) ELSE keyed[i]]
            ELSE [i \in 1..STATE_WORDS |->
                    IF i <= Len(iv) \div 8
                    THEN Xor(keyed[i], chunk_word(iv, i)) ELSE keyed[i]] } })
        : keyed \in { [i \in 1..STATE_WORDS |->
                        IF i <= Len(k) \div 8 THEN chunk_word(k, i) ELSE W0] } })
        : k \in {key_bytes}, iv \in {iv_bytes} })

\* KeyIvInit::new: the state it constructs
new_state(v, key_bytes, iv_bytes) ==
    The({ The({ The({ rounds([nonced EXCEPT ![13] = W0], INIT_ROUNDS(v))
        : nonced \in {
            IF KEY_WORDS(v) + NONCE_WORDS(v) <= STATE_WORDS
            THEN [i \in 1..STATE_WORDS |->
                    IF i > KEY_WORDS(v) /\ i <= KEY_WORDS(v) + (Len(iv) \div 8)
                    THEN chunk_word(iv, i - KEY_WORDS(v)) ELSE keyed[i]]
            ELSE [i \in 1..STATE_WORDS |->
                    IF i <= Len(iv) \div 8
                    THEN Xor(keyed[i], chunk_word(iv, i)) ELSE keyed[i]] } })
        : keyed \in { [i \in 1..STATE_WORDS |->
                        IF i <= Len(k) \div 8 THEN chunk_word(k, i) ELSE W0] } })
        : k \in {key_bytes}, iv \in {iv_bytes} })

new(v, key_bytes, iv_bytes, tok) ==
    [state |-> new_state(v, key_bytes, iv_bytes), tokens |-> tok]

\* ------------------------------------------------------------- seeking
get_block_pos(c) == c.state[13]
set_block_pos(c, pos) == [c EXCEPT !.state[13] = pos]

\* ------------------------------------------------------------- scalar backend
run_rounds(v, state) == rounds(state, KEYSTREAM_ROUNDS(v))

\* What a backend step returns: the instance afterwards, the caller's block
\* afterwards, whether the step panicked, and the scratch it worked on: ctr
\* (word 12 of the scratch before the rounds), nrounds and the final scratch.
Result(c, block, panic, ctr, nrounds, final) ==
    [core |-> c, block |-> block, panic |-> panic,
     ctr |-> ctr, nrounds |-> nrounds, final |-> final]

soft_gen_ks_block_inplace(v, core0, block0) ==
    The({ IF ctr = W0
          THEN Result(set_block_pos(c, ctr), block, TRUE, ctr, 0, c.state)
          ELSE The({ Result([c EXCEPT !.state = final_state],
                            XorBytes(block, keystream_bytes(final_state)),
                            FALSE, ctr, KEYSTREAM_ROUNDS(v), final_state)
                   : final_state \in {run_rounds(v, set_block_pos(c, ctr).state)} })
        : ctr \in {wrapping_add(core0.state[13], WOne)}, c \in {core0}, block \in {block0} })

soft_gen_ks_block(v, core0, block0) ==
    The({ IF ctr = W0
          THEN \* assert!(state[12] != 0) fails after the wrapped store
               Result(set_block_pos(c, ctr), block, TRUE, ctr, 0, c.state)
          ELSE The({ Result(set_block_pos(c, ctr),
                            XorBytes(block, keystream_bytes(final_state)),
                            FALSE, ctr, KEYSTREAM_ROUNDS(v), final_state)
                   : final_state \in {run_rounds(v, set_block_pos(c, ctr).state)} })
        : ctr \in {wrapping_add(core0.state[13], WOne)}, c \in {core0}, block \in {block0} })

\* proc_block: out = in ^ keystream (xor_in2out)
soft_proc_block(v, core0, block0) ==
    The({ IF ctr = W0
          THEN Result(set_block_pos(c, ctr), block, TRUE, ctr, 0, c.state)
          ELSE The({ Result(set_block_pos(c, ctr),
                            XorBytes(block, keystream_bytes(final_state)),
                            FALSE, ctr, KEYSTREAM_ROUNDS(v), final_state)
                   : final_state \in {run_rounds(v, set_block_pos(c, ctr).state)} })
        : ctr \in {wrapping_add(core0.state[13], WOne)}, c \in {core0}, block \in {block0} })

\* ------------------------------------------------------------- SIMD backend
\* u64x4 lanes are 4-tuples of words
lanes_add(x, y) ==
    The({ <<wrapping_add(a[1], b[1]), wrapping_add(a[2], b[2]),
            wrapping_add(a[3], b[3]), wrapping_add(a[4], b[4])>> : a \in {x}, b \in {y} })
lanes_xor(x, y) ==
    The({ <<Xor(a[1], b[1]), Xor(a[2], b[2]), Xor(a[3], b[3]), Xor(a[4], b[4])>>
        : a \in {x}, b \in {y} })
\* (val << amount) | (val >> (64 - amount)) per lane, 0 < amount < 64
lanes_rotate_left(val, amount) ==
    The({ <<rotate_left(a[1], amount[1]), rotate_left(a[2], amount[2]),
            rotate_left(a[3], amount[3]), rotate_left(a[4], amount[4])>> : a \in {val} })

R_L == <<11, 12, 13, 14>>
R_R == <<15, 16, 17, 18>>
S_L == <<7, 9, 11, 13>>
S_R == <<15, 17, 19, 21>>

arx_round_simd(delta_l, delta_r) ==
    The({ The({ \* b_l, and b_r, for which the source reads a_l as well;
                \* the swizzle of (a_l, a_r) is [2, 3, 4, 5, 6, 7, 0, 1]
                <<lanes_rotate_left(
                      lanes_xor(a_l, <<a_l[3], a_l[4], a_r[1], a_r[2]>>), S_L),
                  lanes_rotate_left(
                      lanes_xor(a_l, <<a_r[3], a_r[4], a_l[1], a_l[2]>>), S_R)>>
        \* the swizzle of (xl, xr) is [1, 2, 3, 4, 5, 6, 7, 0]
        : a_l \in {lanes_rotate_left(lanes_add(xl, <<xl[2], xl[3], xl[4], xr[1]>>), R_L)},
          a_r \in {lanes_rotate_left(lanes_add(xr, <<xr[2], xr[3], xr[4], xl[1]>>), R_R)} })
        : xl \in {delta_l}, xr \in {delta_r} })

permutation_simd(state) ==
    The({ The({ The({ \* temp_state.rotate_left(1)
                      SubSeq(temp_state, 2, STATE_WORDS) \o <<temp_state[1]>>
        : temp_state \in {lanes_xor(a, t[1]) \o lanes_xor(b, t[2])
                          \o lanes_xor(c, t[1]) \o lanes_xor(d, t[2])} })
        : t \in {arx_round_simd(lanes_xor(a, c), lanes_xor(b, d))} })
        : a \in {<<state[1], state[2], state[3], state[4]>>},
          b \in {<<state[5], state[6], state[7], state[8]>>},
          c \in {<<state[9], state[10], state[11], state[12]>>},
          d \in {<<state[13], state[14], state[15], state[16]>>} })

RECURSIVE rounds_simd(_, _)
rounds_simd(state, n) ==
    IF n = 0 THEN state
    ELSE The({ rounds_simd(next, n - 1) : next \in {permutation_simd(state)} })

\* The counter the SIMD backend reads and writes as `self.0.counter`: the
\* struct has no such field; the counter is word 12 of the state.
counter(c) == c.state[13]
with_counter(c, w) == [c EXCEPT !.state[13] = w]

simd_gen_ks_block(v, core0, block0) ==
    The({ The({ Result(c, keystream_bytes(working_state), FALSE,
                       ctr, KEYSTREAM_ROUNDS(v), working_state)
        : working_state \in
            {rounds_simd([c.state EXCEPT ![1] = Xor(c.state[1], ctr)], KEYSTREAM_ROUNDS(v))} })
        : ctr \in {wrapping_add(counter(core0), WOne)},
          c \in {with_counter(core0, wrapping_add(counter(core0), WOne))} })

\* ------------------------------------------------------------- backend selector
\* process_with_backend on x86/x86_64 without a forced backend, for the
\* closure that writes one keystream block: "soft" or the unimplemented!() arm
selected_backend(c) ==
    IF c.tokens[1] THEN "unimplemented"
    ELSE IF c.tokens[2] THEN "unimplemented"
    ELSE "soft"

\* ------------------------------------------------------------- bounds, inputs
MaxOps == 2
MaxSeek == 2
MaxMsgBlocks == 2

Ids == {1, 2}
TokenValues == {<<TRUE, TRUE>>, <<FALSE, TRUE>>, <<FALSE, FALSE>>}

\* key and nonce byte strings: the fills of the crate's tests and doc example
Keys(v) == IF v = "512" THEN {Fill(1, 64), Fill(66, 64)}
           ELSE {Fill(3, 128), Fill(171, 128)}
Nonces(v) == IF v = "512" THEN {Fill(2, 64), Fill(36, 64)} ELSE {Fill(4, 64)}

Positions == {U64(n) : n \in 0..MaxSeek} \cup {WMax}
PlainBlock == [i \in 1..BLOCK_SIZE |-> (7 * i) % 256]

\* messages of 0 bytes up to MaxMsgBlocks blocks and a partial one
Message(n) == [i \in 1..n |-> (13 * i + 5) % 256]
MsgLens == {0, 5, BLOCK_SIZE, BLOCK_SIZE + 1, MaxMsgBlocks * BLOCK_SIZE + 2}

ZeroState == [i \in 1..STATE_WORDS |-> W0]
RoundInputs ==
    { [i \in 1..STATE_WORDS |-> U64(i)],
      [i \in 1..STATE_WORDS |-> WMax],
      [i \in 1..STATE_WORDS |-> IF i <= 8 THEN chunk_word(Fill(1, 64), i)
                                ELSE IF i = 13 THEN W0
                                ELSE chunk_word(Fill(2, 64), i - 8)] }

\* ------------------------------------------------------------- state
VARIABLES
    variant,    \* "512" or "1024"
    key, nonce, \* the bytes instance 1 is constructed from
    key2, nonce2, \* the bytes instance 2 is constructed from
    core,       \* core[i]: Ysc1Core of instance i: state and tokens
    status,     \* status[i]: "ok", or the panic that ended instance i
    block,      \* block[i]: the block buffer handed to instance i's backend
    used,       \* used[i]: scratch of the latest generation: ctr, nrounds, final
    trace,      \* trace[i]: the operations applied to instance i since new
    msg,        \* the message apply_keystream is given
    buffer,     \* the caller's data buffer
    rin,        \* one permutation round in steps: its input state,
    rwork,      \*   the state being worked on,
    rloc,       \*   rloc[q]: the words quadruple q has read,
    rpc,        \*   rpc[q]: "idle", "read", "done"
    rorder,     \*   the quadruples in the order they were written back,
    roverlap,   \*   whether a quadruple wrote while another held words it had read
    rfin        \*   whether the diagonal permutation has been applied

cipherVars == <<variant, key, nonce, key2, nonce2, core, status, block, used, trace>>
applyVars == <<msg, buffer>>
roundVars == <<rin, rwork, rloc, rpc, rorder, roverlap, rfin>>
vars == <<cipherVars, applyVars, roundVars>>

Op(name, arg) == [op |-> name, arg |-> arg]
Generations == {"gen_ks_block", "proc_block", "simd_gen_ks_block", "write_keystream_block"}
LastOp(i) == trace[i][Len(trace[i])]

\* ------------------------------------------------------------- initial states
NoRound ==
    /\ rin = ZeroState /\ rwork = ZeroState
    /\ rloc = [q \in 1..4 |-> <<W0, W0, W0, W0>>]
    /\ rpc = [q \in 1..4 |-> "idle"]
    /\ rorder = <<>> /\ roverlap = FALSE
    /\ rfin = FALSE

NoApply == msg = <<>> /\ buffer = <<>>

\* both instances constructed by KeyIvInit::new from the same key and nonce
Constructed(toks) ==
    /\ variant \in Variants
    /\ key \in Keys(variant)
    /\ nonce \in Nonces(variant)
    /\ key2 = key /\ nonce2 = nonce
    /\ \E tok \in toks :
         \E c \in {new(variant, key, nonce, tok)} : core = [i \in Ids |-> c]
    /\ status = [i \in Ids |-> "ok"]
    /\ block = [i \in Ids |-> ZeroBlock]
    /\ used = [i \in Ids |-> [ctr |-> W0, nrounds |-> 0, final |-> ZeroState]]
    /\ trace = [i \in Ids |-> <<>>]

Init == Constructed(TokenValues) /\ NoApply /\ NoRound

\* ------------------------------------------------------------- operations
\* the effect of one backend step r on instance i
Step(i, name, arg, r) ==
    /\ core' = [core EXCEPT ![i] = r.core]
    /\ status' = [status EXCEPT ![i] = IF r.panic THEN "overflow" ELSE "ok"]
    /\ block' = [block EXCEPT ![i] = r.block]
    /\ used' = [used EXCEPT ![i] = [ctr |-> r.ctr, nrounds |-> r.nrounds, final |-> r.final]]
    /\ trace' = [trace EXCEPT ![i] = Append(@, Op(name, arg))]
    /\ UNCHANGED <<variant, key, nonce, key2, nonce2>>

\* soft::Backend::gen_ks_block on a block holding `prior`
GenKsBlock(i, prior) ==
    /\ status[i] = "ok"
    /\ \E r \in {soft_gen_ks_block(variant, core[i], prior)} :
         Step(i, "gen_ks_block", W0, r)
    /\ UNCHANGED <<applyVars, roundVars>>

\* soft::Backend::proc_block on a data block
ProcBlock(i, data) ==
    /\ status[i] = "ok"
    /\ \E r \in {soft_proc_block(variant, core[i], data)} :
         Step(i, "proc_block", W0, r)
    /\ UNCHANGED <<applyVars, roundVars>>

\* simd::Backend::gen_ks_block on a block holding `prior`
GenKsBlockSimd(i, prior) ==
    /\ status[i] = "ok"
    /\ \E r \in {simd_gen_ks_block(variant, core[i], prior)} :
         Step(i, "simd_gen_ks_block", W0, r)
    /\ UNCHANGED <<applyVars, roundVars>>

\* StreamCipherSeekCore::set_block_pos
SetBlockPos(i, pos) ==
    /\ status[i] = "ok"
    /\ core' = [core EXCEPT ![i] = set_block_pos(core[i], pos)]
    /\ trace' = [trace EXCEPT ![i] = Append(@, Op("set_block_pos", pos))]
    /\ UNCHANGED <<variant, key, nonce, key2, nonce2, status, block, used>>
    /\ UNCHANGED <<applyVars, roundVars>>

\* process_with_backend with the closure that writes one keystream block
WriteKeystreamBlock(i, prior) ==
    /\ status[i] = "ok"
    /\ IF selected_backend(core[i]) = "soft"
       THEN \E r \in {soft_gen_ks_block(variant, core[i], prior)} :
              Step(i, "write_keystream_block", W0, r)
       ELSE /\ status' = [status EXCEPT ![i] = "unimplemented"]
            /\ trace' = [trace EXCEPT ![i] = Append(@, Op("write_keystream_block", W0))]
            /\ UNCHANGED <<variant, key, nonce, key2, nonce2, core, block, used>>
    /\ UNCHANGED <<applyVars, roundVars>>

Priors(i) == {ZeroBlock, block[i], PlainBlock}

\* One instance under every operation, MaxOps operations long.
Gen == Len(trace[1]) < MaxOps /\ \E prior \in Priors(1) : GenKsBlock(1, prior)
Proc == Len(trace[1]) < MaxOps /\ ProcBlock(1, PlainBlock)
GenSimd == Len(trace[1]) < MaxOps /\ \E prior \in Priors(1) : GenKsBlockSimd(1, prior)
Seek == Len(trace[1]) < MaxOps /\ \E pos \in Positions : SetBlockPos(1, pos)
Write == Len(trace[1]) < MaxOps /\ \E prior \in Priors(1) : WriteKeystreamBlock(1, prior)

Next == Gen \/ Proc \/ GenSimd \/ Seek \/ Write

Spec == Init /\ [][Next]_vars

\* ------------------------------------------------------------- two instances
\* Instance 1 generates blocks one after the other; instance 2 seeks first
\* or not, then generates with the scalar or the SIMD backend.  Every block
\* buffer handed in is zeroed.
InitPair == Constructed({<<FALSE, FALSE>>}) /\ NoApply /\ NoRound

SeqGen == Len(trace[1]) <= MaxSeek /\ GenKsBlock(1, ZeroBlock)
SeekTo == trace[2] = <<>> /\ \E n \in 0..MaxSeek : SetBlockPos(2, U64(n))
SeekGen == Len(trace[2]) < MaxOps /\ GenKsBlock(2, ZeroBlock)
SimdGen == Len(trace[2]) < MaxOps /\ GenKsBlockSimd(2, ZeroBlock)

NextPair == SeqGen \/ SeekTo \/ SeekGen \/ SimdGen

SpecPair == InitPair /\ [][NextPair]_vars

\* ------------------------------------------------------------- apply_keystream
\* StreamCipher::apply_keystream of the cipher crate's wrapper on a fresh
\* instance: whole blocks are XORed with keystream blocks generated into a
\* zeroed temporary, a trailing partial block with a prefix of a block
\* generated into the wrapper's buffer wbuf.
RECURSIVE apply_keystream(_, _, _, _)
apply_keystream(v, core0, wbuf0, data0) ==
    The({ IF Len(data) >= BLOCK_SIZE
          THEN The({ IF r.panic
                     THEN [core |-> r.core, wbuf |-> wbuf, data |-> data, panic |-> TRUE,
                           last |-> [ctr |-> r.ctr, nrounds |-> r.nrounds, final |-> r.final]]
                     ELSE The({ [rest EXCEPT
                                   !.data = XorBytes(SubSeq(data, 1, BLOCK_SIZE), r.block) \o @]
                              : rest \in {apply_keystream(v, r.core, wbuf,
                                            SubSeq(data, BLOCK_SIZE + 1, Len(data)))} })
                   : r \in {soft_gen_ks_block(v, c, ZeroBlock)} })
          ELSE The({ IF r.panic
                     THEN [core |-> r.core, wbuf |-> wbuf, data |-> data, panic |-> TRUE,
                           last |-> [ctr |-> r.ctr, nrounds |-> r.nrounds, final |-> r.final]]
                     ELSE [core |-> r.core, wbuf |-> r.block,
                           data |-> XorBytes(data, r.block), panic |-> FALSE,
                           last |-> [ctr |-> r.ctr, nrounds |-> r.nrounds, final |-> r.final]]
                   : r \in {IF Len(data) > 0 THEN soft_gen_ks_block(v, c, wbuf)
                            ELSE Result(c, wbuf, FALSE, W0, 0, c.state)} })
        : c \in {core0}, wbuf \in {wbuf0}, data \in {data0} })

ApplyKeystream(i) ==
    /\ status[i] = "ok"
    /\ trace[i] = <<>>
    /\ trace' = [trace EXCEPT ![i] = Append(@, Op("apply_keystream", U64(Len(buffer))))]
    /\ IF selected_backend(core[i]) = "soft"
       THEN \E r \in {apply_keystream(variant, core[i], block[i], buffer)} :
              /\ core' = [core EXCEPT ![i] = r.core]
              /\ status' = [status EXCEPT ![i] = IF r.panic THEN "overflow" ELSE "ok"]
              /\ block' = [block EXCEPT ![i] = r.wbuf]
              /\ used' = [used EXCEPT ![i] = r.last]
              /\ buffer' = r.data
       ELSE /\ status' = [status EXCEPT ![i] = "unimplemented"]
            /\ UNCHANGED <<core, block, used, buffer>>
    /\ UNCHANGED <<variant, key, nonce, key2, nonce2, msg, roundVars>>

InitApply ==
    /\ Constructed(TokenValues)
    /\ \E n \in MsgLens : msg = Message(n)
    /\ buffer = msg
    /\ NoRound

\* the first instance encrypts, the second decrypts what the first produced;
\* a panic of the first ends the caller, so nothing is decrypted after it
Encrypt == ApplyKeystream(1)
Decrypt == trace[1] # <<>> /\ status[1] = "ok" /\ ApplyKeystream(2)

NextApply == Encrypt \/ Decrypt

SpecApply == InitApply /\ [][NextApply]_vars

\* ------------------------------------------------------------- one round, in steps
\* The four lm_quad_round applications of one permutation_round, each split
\* into its reads (line 48) and its writes (lines 52-55), in any interleaving;
\* the diagonal permutation follows when all four have written.
NoCipher ==
    /\ variant = "512" /\ key = <<>> /\ nonce = <<>>
    /\ key2 = <<>> /\ nonce2 = <<>>
    /\ core = [i \in Ids |-> [state |-> ZeroState, tokens |-> <<FALSE, FALSE>>]]
    /\ status = [i \in Ids |-> "ok"]
    /\ block = [i \in Ids |-> ZeroBlock]
    /\ used = [i \in Ids |-> [ctr |-> W0, nrounds |-> 0, final |-> ZeroState]]
    /\ trace = [i \in Ids |-> <<>>]

InitRound ==
    /\ NoCipher /\ NoApply
    /\ rin \in RoundInputs
    /\ rwork = rin
    /\ rloc = [q \in 1..4 |-> <<W0, W0, W0, W0>>]
    /\ rpc = [q \in 1..4 |-> "idle"]
    /\ rorder = <<>> /\ roverlap = FALSE
    /\ rfin = FALSE

QuadRead(q) ==
    /\ rpc[q] = "idle"
    /\ rloc' = [rloc EXCEPT ![q] = quad_read(rwork, quad_indices[q])]
    /\ rpc' = [rpc EXCEPT ![q] = "read"]
    /\ UNCHANGED <<rin, rwork, rorder, roverlap, rfin, cipherVars, applyVars>>

QuadWrite(q) ==
    /\ rpc[q] = "read"
    /\ rwork' = quad_write(rwork, quad_indices[q], lm_quad_mix(rloc[q]))
    /\ rpc' = [rpc EXCEPT ![q] = "done"]
    /\ rorder' = Append(rorder, q)
    /\ roverlap' = (roverlap \/ \E o \in 1..4 : o # q /\ rpc[o] = "read")
    /\ UNCHANGED <<rin, rloc, rfin, cipherVars, applyVars>>

Diagonal ==
    /\ ~rfin
    /\ \A q \in 1..4 : rpc[q] = "done"
    /\ rwork' = diagonal(rwork)
    /\ rfin' = TRUE
    /\ UNCHANGED <<rin, rloc, rpc, rorder, roverlap, cipherVars, applyVars>>

NextRound == (\E q \in 1..4 : QuadRead(q)) \/ (\E q \in 1..4 : QuadWrite(q)) \/ Diagonal

SpecRound == InitRound /\ [][NextRound]_vars

\* ------------------------------------------------------------- two constructions
\* Instance 2 is constructed from a key and nonce that differ from instance
\* 1's in one 8-byte word; then both are taken through the same operations,
\* instance 1 first and instance 2 after it.
AlterWord(bytes, w, b) ==
    [i \in 1..Len(bytes) |->
        IF i > 8 * w /\ i <= 8 * w + 8
        THEN (IF b = 0 THEN (IF i = 8 * w + 1 THEN (bytes[i] + 1) % 256 ELSE bytes[i])
              ELSE b)
        ELSE bytes[i]]

\* the other key and nonce: one word of the nonce, or of the key, altered
\* (b = 0 alters its lowest byte only, another b fills the word with b)
Alterations(v, k, n) ==
    IF v = "512"
    THEN {<<k, AlterWord(n, 4, b)>> : b \in {0, 255}}
         \cup {<<k, AlterWord(n, 3, 255)>>, <<AlterWord(k, 4, 255), n>>}
    ELSE {<<AlterWord(k, 12, b), n>> : b \in {0, 255}}
         \cup {<<AlterWord(k, 11, 255), n>>, <<k, AlterWord(n, 4, 255)>>}

InitSchedule ==
    /\ variant \in Variants
    /\ key \in Keys(variant)
    /\ nonce \in Nonces(variant)
    /\ \E alt \in Alterations(variant, key, nonce) :
         /\ key2 = alt[1] /\ nonce2 = alt[2]
         /\ \E c1 \in {new(variant, key, nonce, <<FALSE, FALSE>>)},
               c2 \in {new(variant, alt[1], alt[2], <<FALSE, FALSE>>)} :
              core = [i \in Ids |-> IF i = 1 THEN c1 ELSE c2]
    /\ status = [i \in Ids |-> "ok"]
    /\ block = [i \in Ids |-> ZeroBlock]
    /\ used = [i \in Ids |-> [ctr |-> W0, nrounds |-> 0, final |-> ZeroState]]
    /\ trace = [i \in Ids |-> <<>>]
    /\ NoApply /\ NoRound

Abreast == Len(trace[1]) = Len(trace[2])
NextOfFirst == trace[1][Len(trace[2]) + 1]

GenFirst == Abreast /\ Len(trace[1]) < MaxOps /\ GenKsBlock(1, ZeroBlock)
SeekFirst == Abreast /\ Len(trace[1]) < MaxOps /\ \E pos \in Positions : SetBlockPos(1, pos)
GenSecond ==
    /\ Len(trace[2]) < Len(trace[1])
    /\ NextOfFirst.op = "gen_ks_block"
    /\ GenKsBlock(2, ZeroBlock)
SeekSecond ==
    /\ Len(trace[2]) < Len(trace[1])
    /\ NextOfFirst.op = "set_block_pos"
    /\ SetBlockPos(2, NextOfFirst.arg)

NextSchedule == GenFirst \/ SeekFirst \/ GenSecond \/ SeekSecond

SpecSchedule == InitSchedule /\ [][NextSchedule]_vars

\* ------------------------------------------------------------- claims
SeqTrace(n) == [k \in 1..n |-> Op("gen_ks_block", W0)]
Acted(i) == trace[i] # <<>>
ScalarGenerations == {"gen_ks_block", "proc_block"}

\* C1 (as claimed; SpecPair): the block instance 2 generates after
\* set_block_pos(N) equals the (N+1)-th block instance 1 generates in
\* sequence, both constructed from the same key, nonce and variant.
C1_SeekEqualsSequential ==
    \A n \in 0..MaxSeek :
        (/\ trace[2] = <<Op("set_block_pos", U64(n)), Op("gen_ks_block", W0)>>
         /\ trace[1] = SeqTrace(n + 1))
        => block[2] = block[1]

\* C2 (as claimed; Spec): right after construction get_block_pos reads 0, and
\* the first block generated is computed with counter 1.
C2_CounterStartsAtZero ==
    \A i \in Ids :
        /\ ~Acted(i) => get_block_pos(core[i]) = W0
        /\ (Len(trace[i]) = 1 /\ LastOp(i).op \in Generations /\ status[i] = "ok")
           => used[i].ctr = WOne

\* C3 (as claimed; Spec): a block generation whose counter wraps from 2^64-1
\* to 0 ends in the fatal path on the scalar gen_ks_block, the scalar
\* proc_block and the SIMD gen_ks_block: none emits a block computed with
\* counter 0.
C3_ExhaustionIsFatal ==
    \A i \in Ids :
        (/\ Acted(i)
         /\ LastOp(i).op \in {"gen_ks_block", "proc_block", "simd_gen_ks_block"}
         /\ used[i].ctr = W0)
        => status[i] = "overflow"

\* C4 (as claimed; SpecPair): from the same State and counter and a zeroed
\* block, the scalar and the SIMD gen_ks_block produce the same 64 bytes and
\* leave the same counter.
C4_BackendParity ==
    (/\ Acted(1) /\ Acted(2)
     /\ Len(trace[1]) = Len(trace[2])
     /\ SubSeq(trace[1], 1, Len(trace[1]) - 1) = SubSeq(trace[2], 1, Len(trace[2]) - 1)
     /\ LastOp(1).op = "gen_ks_block"
     /\ LastOp(2).op = "simd_gen_ks_block")
    => /\ block[1] = block[2]
       /\ get_block_pos(core[1]) = get_block_pos(core[2])

\* C5 (as claimed; SpecApply): for every key, nonce, variant and message
\* length in MsgLens, a fresh instance applies its keystream to the message
\* and the application completes; and once a second fresh instance of the
\* same key and nonce has applied its keystream to the result, that
\* application has completed too and the buffer holds the message again.
C5_XorInvolution ==
    /\ Acted(1) => status[1] = "ok"
    /\ (Acted(1) /\ Acted(2)) => (status[2] = "ok" /\ buffer = msg)

\* C6 (Spec): no step changes a state word other than word 12; a scalar block
\* generation adds exactly 1 (wrapping) to word 12 and set_block_pos stores
\* its argument there.
C6_Frame ==
    \A i \in Ids :
        /\ \A w \in (1..STATE_WORDS) \ {13} : core'[i].state[w] = core[i].state[w]
        /\ trace'[i] # trace[i] =>
             \E o \in {trace'[i][Len(trace'[i])]} :
                /\ o.op = "set_block_pos" => core'[i].state[13] = o.arg
                /\ (o.op \in ScalarGenerations
                    \/ (o.op = "write_keystream_block" /\ status'[i] # "unimplemented"))
                   => core'[i].state[13] = wrapping_add(core[i].state[13], WOne)
C6_OnlyWord12Changes == [][C6_Frame]_vars

C6_Witness ==
    \E i \in Ids :
        /\ Len(trace[i]) = 2
        /\ trace[i][1].op = "gen_ks_block"
        /\ trace[i][2] = Op("set_block_pos", U64(2))
        /\ get_block_pos(core[i]) = U64(2)
        /\ \E s0 \in {new_state(variant, key, nonce)} :
              \A w \in (1..STATE_WORDS) \ {13} : core[i].state[w] = s0[w]

\* C7 (as claimed; Spec): the block the scalar gen_ks_block leaves in its
\* buffer is the little-endian encoding of scratch words [0, 8), whatever the
\* buffer held before.
C7_BlockIsKeystream ==
    \A i \in Ids :
        (Acted(i) /\ LastOp(i).op = "gen_ks_block" /\ status[i] = "ok")
        => block[i] = keystream_bytes(used[i].final)

\* C8 (as claimed; Spec): every block is produced by 8 permutation rounds in
\* variant "512" and 10 in variant "1024".
C8_KeystreamRounds ==
    \A i \in Ids :
        (Acted(i) /\ LastOp(i).op \in Generations /\ status[i] = "ok")
        => used[i].nrounds = (IF variant = "512" THEN 8 ELSE 10)

\* C9 (as claimed; Spec): block generation fails only by counter exhaustion,
\* whatever the cached tokens are.
C9_NoOtherFailure == \A i \in Ids : status[i] \in {"ok", "overflow"}

\* C10 (SpecRound): whatever the order and interleaving of the four quad
\* mixers' reads and writes, the state after the diagonal permutation is the
\* one permutation_round computes.
C10_QuadOrderIndependent == rfin => rwork = permutation_round(rin)

C10_Witness ==
    /\ rfin
    /\ rorder = <<4, 2, 3, 1>>
    /\ roverlap
    /\ rwork = permutation_round(rin)
    /\ rwork # rin

\* C11 (SpecSchedule): the schedule discards the input word that lands on
\* state index 12.  When the two constructions differ at most in nonce word 4
\* (variant "512") or in key word 12 (variant "1024"), the two instances hold
\* the same state after construction and, after the same operations, the same
\* state, the same counter and the same block.
SameOutside(a, b, w) ==
    /\ Len(a) = Len(b)
    /\ \A i \in 1..Len(a) : (i <= 8 * w \/ i > 8 * w + 8) => a[i] = b[i]

DiffersInDiscardedWordOnly ==
    IF variant = "512"
    THEN key2 = key /\ SameOutside(nonce, nonce2, 4)
    ELSE nonce2 = nonce /\ SameOutside(key, key2, 12)

C11_Word12InputDiscarded ==
    (DiffersInDiscardedWordOnly /\ trace[1] = trace[2])
        => /\ core[1] = core[2]
           /\ status[1] = status[2]
           /\ used[1] = used[2]
           /\ block[1] = block[2]

C11_Witness ==
    /\ variant = "1024"
    /\ DiffersInDiscardedWordOnly
    /\ key2 # key
    /\ trace[1] = trace[2]
    /\ Len(trace[1]) = 2
    /\ trace[1][1].op = "set_block_pos"
    /\ LastOp(1).op = "gen_ks_block"
    /\ status[1] = "ok"
    /\ block[1] = block[2]
    /\ block[1] # ZeroBlock
====
